---- MODULE Spec2Model ----
(***************************************************************************)
(* The event log of the ledger node (apps/src/lib/node/ledger/events/log.rs) *)
(* as a state machine: producers send LogEntry values over an unbounded     *)
(* channel, the Logger (the only writer) drains it into the EventLog, and   *)
(* readers call try_iter / wait_iter and step the iterators they get.       *)
(*                                                                         *)
(* Arc<LogNode> values live in the arena `nodes`; a reference is the index  *)
(* of the node, and 0 stands for None.                                      *)
(*                                                                         *)
(* The multitoken validity predicate (shared/src/ledger/native_vp/          *)
(* multitoken.rs) is a pure function of the changed keys, the storage       *)
(* before and after the transaction and the verifiers: it is the operator   *)
(* ValidateTx, run by SpecVp over a bounded set of transactions.            *)
(*                                                                         *)
(* The storage host functions of validity predicates (crates/namada/src/    *)
(* ledger/vp_host_fns.rs) are operators over a gas meter, the write log and *)
(* the storage; SpecEnv calls them in any order on one gas meter until the  *)
(* validity predicate is aborted by a runtime error.                        *)
(***************************************************************************)
EXTENDS Integers, Sequences, FiniteSets, TLC

\* ---------------------------------------------------------------- constants

\* const MAX_LOG_EVENTS: usize = 50000;
MAX_LOG_EVENTS == 50000

\* const LOG_BLOCK_HEIGHT_DIFF: u64 = 1000;
LOG_BLOCK_HEIGHT_DIFF == 1000

\* ------------------------------------------------------------------- bounds

\* Number of entries the producers send over the whole run.
MaxSends == 2

\* Number of reader tasks; Spec runs the first of them, the others stay off.
NumReaders == 2

Readers == 1..NumReaders

\* Number of calls made to an iterator's next after it returned None.
MaxAfterEnd == 1

\* Number of LogEntrySender handles (the one new() returns and its clones).
NumSenders == 2

Senders == 1..NumSenders

\* Block heights the producers may use: two neighbouring heights and one
\* further away than LOG_BLOCK_HEIGHT_DIFF from both.
Heights == {0, 1, LOG_BLOCK_HEIGHT_DIFF + 1}

\* struct Event, as far as the log looks at it: its EventType and its "hash"
\* attribute (the events of mock_tx_events).
Event(type, hash) == [type |-> type, hash |-> hash]

\* Event batches a `FinalizeBlock` call may emit.
Batches ==
    {<<>>, <<Event("accepted", "A")>>,
     <<Event("applied", "B"), Event("accepted", "B")>>}

\* Query strings handed to try_iter / wait_iter.
Queries == {"invalid", "accepted"}

\* --------------------------------------------------------------- data model

\* struct LogEntry { block_height, events }
LogEntry == [block_height : Heights, events : Batches]

\* Option::None for references into the arena.
None == 0

\* The value of Option<Event>::None returned by Iterator::next.
NoEvent == Event("none", "none")

\* Option<EventLogSnapshot>::None.
NoSnapshot == [oldest_height |-> 0, num_events |-> 0, head |-> None]

\* dumb_queries::QueryMatcher::parse: None on a malformed query.
ParseQuery(q) == IF q = "invalid" THEN "none" ELSE q

\* dumb_queries::QueryMatcher::matches: the matcher accepts the events of
\* the type it names.
Matches(m, e) == e.type = m

VARIABLES
    nodes,          \* the arena of LogNode values: [entry, next]
    num_events,     \* EventLogInnerMux::num_events
    oldest_height,  \* EventLogInnerMux::oldest_height
    head,           \* EventLogInnerMux::head
    wlock,          \* RwLock: held for writing
    rlock,          \* RwLock: the readers holding it for reading
    listeners,      \* event_listener::Event: the registered listeners
    notified,       \* event_listener::Event: the listeners already notified
    queue,          \* the unbounded mpsc channel of LogEntry values
    sent,           \* number of send_new_entry calls made so far
    senders,        \* the LogEntrySender handles that have not been dropped
    sends,          \* history: the send_new_entry calls, in call order
    wpc,            \* the Logger's position
    wentry,         \* the entry the Logger is adding
    wlocal,         \* add's locals (head, events) captured under the lock
    rd,             \* per reader: the state of its call and of its iterator
    handed,         \* history: the entries handed to add, in call order
    hist,           \* history: per reader, what was true when it acted
    vp,             \* a run of MultitokenVp::validate_tx: inputs and result
    env             \* a VP's host environment: gas meter, state, call results

vars == <<nodes, num_events, oldest_height, head, wlock, rlock, listeners,
          notified, queue, sent, senders, sends, wpc, wentry, wlocal, rd,
          handed, hist, vp, env>>

logVars == <<nodes, num_events, oldest_height, head>>
writerVars == <<wpc, wentry, wlocal>>
chanVars == <<queue, sent, senders, sends>>
vpVars == <<vp, env>>

\* ------------------------------------------------------------ pure helpers

RECURSIVE Chain(_, _)
\* The node references met walking `next` links from h, newest first.
Chain(ns, h) ==
    IF h = None THEN <<>> ELSE <<h>> \o Chain(ns, ns[h].next)

\* The entries met walking from h.
EntriesFrom(ns, h) == [i \in DOMAIN Chain(ns, h) |-> ns[Chain(ns, h)[i]].entry]

RECURSIVE SumLens(_, _)
\* Sum of the event-batch lengths over the nodes reachable from h.
SumLens(ns, h) ==
    IF h = None THEN 0 ELSE Len(ns[h].entry.events) + SumLens(ns, ns[h].next)

Reverse(s) == [i \in DOMAIN s |-> s[Len(s) + 1 - i]]

IsPrefix(s, t) == Len(s) <= Len(t) /\ \A i \in DOMAIN s : s[i] = t[i]

\* The entries with a non-empty batch among those handed to add.
NonEmpty(es) == SelectSeq(es, LAMBDA e : e.events # <<>>)

\* ------------------------------------------------------- EventLog operators

\* Mutation of IsEmptyBatch: the check for an empty batch is missing.
IsEmptyBatch_Never(entry) == FALSE

\* add: `if entry.events.is_empty() { return; }`
IsEmptyBatch(entry) == entry.events = <<>>

\* Mutation of AddNumEvents: entries are counted instead of events.
AddNumEvents_One(n, entry) == n + 1

\* add: `log.num_events += entry.events.len();`
AddNumEvents(n, entry) == n + Len(entry.events)

\* Mutation of NewNode: the link to the previous head is lost.
NewNode_NoLink(entry, h) == [entry |-> entry, next |-> None]

\* add: `LogNode { entry, next: log.head.take() }`
NewNode(entry, h) == [entry |-> entry, next |-> h]

\* Mutation of InstallHead: the new node is linked behind the oldest node
\* and the head stays where it is.
InstallHead_Tail(ns, h, entry) ==
    IF h = None
    THEN [nodes |-> Append(ns, [entry |-> entry, next |-> None]),
          head |-> Len(ns) + 1]
    ELSE LET last == Chain(ns, h)[Len(Chain(ns, h))]
         IN  [nodes |-> Append([ns EXCEPT ![last].next = Len(ns) + 1],
                               [entry |-> entry, next |-> None]),
              head |-> h]

\* add: `log.head = Some(Arc::new(LogNode { .. }))`: the new node is
\* allocated and becomes the head; no existing node changes.
InstallHead(ns, h, entry) ==
    [nodes |-> Append(ns, NewNode(entry, h)), head |-> Len(ns) + 1]

\* Mutation of AddOrder: the waiters are notified first, before the lock is
\* taken and the head installed.
AddOrder_NotifyFirst(pc) ==
    CASE pc = "add" -> "notify"
      [] pc = "notify" -> "lock"
      [] pc = "lock" -> "count"
      [] pc = "count" -> "head"
      [] pc = "head" -> "unlock"
      [] pc = "unlock" -> "prune"
      [] pc = "prune" -> "recv"

\* add: the order of its statements after the check for an empty batch: the
\* write lock, the count, the head, the end of the locked block, the
\* notification, prune, return.
AddOrder(pc) ==
    CASE pc = "add" -> "lock"
      [] pc = "lock" -> "count"
      [] pc = "count" -> "head"
      [] pc = "head" -> "unlock"
      [] pc = "unlock" -> "notify"
      [] pc = "notify" -> "prune"
      [] pc = "prune" -> "recv"

\* Mutation of Notify: notify(1), one more listener is notified.
Notify_One(ls, nt) ==
    IF ls \ nt = {} THEN nt ELSE nt \cup {CHOOSE r \in ls \ nt : TRUE}

\* Mutation of Notify: the broadcast reaches no listener.
Notify_None(ls, nt) == nt

\* add: `self.inner.notifier.notify(usize::MAX)`: every registered listener
\* is notified.
Notify(ls, nt) == nt \cup ls

\* Mutation of Prune: the entries behind the new head are cut off by
\* clearing the link of the head node in place.
Prune_CutInPlace(log, h, n) ==
    IF h # None /\ log.nodes[h].next # None
    THEN [log EXCEPT !.nodes[h].next = None,
                     !.num_events = Len(log.nodes[h].entry.events),
                     !.oldest_height = log.nodes[h].entry.block_height]
    ELSE log

\* Mutation of Prune: every entry is evicted.
Prune_EvictAll(log, h, n) == [log EXCEPT !.head = None, !.num_events = 0]

\* prune: the body is a TODO, the log is left as it is.
Prune(log, h, n) == log

\* Mutation of CanRead: the fields are read without waiting for the writer.
CanRead_Always(wl) == TRUE

\* RwLock::read: granted when no writer holds the lock.
CanRead(wl) == ~wl

\* RwLock::write: granted when nobody holds the lock.
CanWrite(wl, rl) == ~wl /\ rl = {}

\* Mutation of HeadAfterClone: the head is taken out of the log (`take()`)
\* instead of being cloned.
HeadAfterClone_Take(h) == None

\* snapshot: `log.head.clone()` leaves the head of the live log in place.
HeadAfterClone(h) == h

\* snapshot: `log.head.clone().map(|head| EventLogSnapshot { .. })`
Snapshot(h, n, o) ==
    IF h = None THEN NoSnapshot
    ELSE [oldest_height |-> o, num_events |-> n, head |-> h]

\* Mutation of AfterParse: wait_iter looks at the log before it waits, as
\* try_iter does.
AfterParse_TryFirst(op, m) == IF m = "none" THEN "done" ELSE "snapshot"

\* Mutation of AfterParse: the parse error is not returned at once, the call
\* goes on to the log.
AfterParse_IgnoreError(op, m) ==
    IF op = "try_iter" THEN "snapshot" ELSE "listen"

\* try_iter / wait_iter: `.ok_or(IterError::InvalidQuery)?` returns at once
\* on a malformed query; otherwise try_iter goes on to the snapshot and
\* wait_iter to its loop.
AfterParse(op, m) ==
    IF m = "none" THEN "done"
    ELSE IF op = "try_iter" THEN "snapshot" ELSE "listen"

\* try_iter_with_matcher: `self.snapshot().ok_or(IterError::EmptyLog)?`
TryIterResult(snap) == IF snap.head = None THEN "EmptyLog" ELSE "Ok"

\* Mutation of RetriesEmptyLog: the attempt made at the deadline is retried
\* like the ones made in the loop.
RetriesEmptyLog_Always(op, via) == op = "wait_iter"

\* wait_iter: `Err(IterError::EmptyLog) => continue` inside the loop; the
\* attempt made once the deadline has elapsed is outside of it.
RetriesEmptyLog(op, via) == op = "wait_iter" /\ via = "woken"

\* Mutation of OnDeadline: the elapsed deadline is reported as an error.
OnDeadline_Timeout(res) == "Timeout"

\* wait_iter: `.map_or_else(|_| self.try_iter_with_matcher(matcher), ..)`:
\* on the deadline the result of the final attempt is returned as it is.
OnDeadline(res) == res

\* Mutation of DropReadGuard: the read guard lives as long as the iterator.
DropReadGuard_Keep(rl, r) == rl

\* snapshot: the RwLockReadGuard `log` is dropped when snapshot returns.
DropReadGuard(rl, r) == rl \ {r}

RECURSIVE IterNext_NotFused(_, _, _, _)
\* Mutation of IterNext: the end is reported once; a call made after it
\* yields the first event of the arena again.
IterNext_NotFused(ns, m, index, node) ==
    IF node = None
    THEN IF index = 0
         THEN [index |-> 1, node |-> None, item |-> NoEvent]
         ELSE [index |-> 1, node |-> None, item |-> ns[1].entry.events[1]]
    ELSE IF index < Len(ns[node].entry.events)
         THEN IF Matches(m, ns[node].entry.events[index + 1])
              THEN [index |-> index + 1, node |-> node,
                    item |-> ns[node].entry.events[index + 1]]
              ELSE IterNext_NotFused(ns, m, index + 1, node)
         ELSE IterNext_NotFused(ns, m, 0, ns[node].next)

RECURSIVE IterNext_NoFilter(_, _, _, _)
\* Mutation of IterNext: the matcher is not consulted, every event is yielded.
IterNext_NoFilter(ns, m, index, node) ==
    IF node = None
    THEN [index |-> index, node |-> None, item |-> NoEvent]
    ELSE IF index < Len(ns[node].entry.events)
         THEN [index |-> index + 1, node |-> node,
               item |-> ns[node].entry.events[index + 1]]
         ELSE IterNext_NoFilter(ns, m, 0, ns[node].next)

RECURSIVE IterNext_OnePerNode(_, _, _, _)
\* Mutation of IterNext: after an event was yielded (index > 0) the rest of
\* the batch is passed over and the walk goes on at the next node.
IterNext_OnePerNode(ns, m, index, node) ==
    IF node = None
    THEN [index |-> index, node |-> None, item |-> NoEvent]
    ELSE IF index = 0 /\ index < Len(ns[node].entry.events)
         THEN IF Matches(m, ns[node].entry.events[index + 1])
              THEN [index |-> index + 1, node |-> node,
                    item |-> ns[node].entry.events[index + 1]]
              ELSE IterNext_OnePerNode(ns, m, index + 1, node)
         ELSE IterNext_OnePerNode(ns, m, 0, ns[node].next)

RECURSIVE IterNext(_, _, _, _)
\* EventLogIterator::next: the loop of the method, from (index, node), up to
\* the event it breaks with or the end of the chain.
IterNext(ns, m, index, node) ==
    IF node = None
    THEN [index |-> index, node |-> None, item |-> NoEvent]
    ELSE IF index < Len(ns[node].entry.events)
         THEN IF Matches(m, ns[node].entry.events[index + 1])
              THEN [index |-> index + 1, node |-> node,
                    item |-> ns[node].entry.events[index + 1]]
              ELSE IterNext(ns, m, index + 1, node)
         ELSE IterNext(ns, m, 0, ns[node].next)

RECURSIVE Collect(_, _, _, _)
\* The events an iterator at (index, node) yields until it ends.
Collect(ns, m, index, node) ==
    LET r == IterNext(ns, m, index, node)
    IN  IF r.item = NoEvent THEN <<>>
        ELSE <<r.item>> \o Collect(ns, m, r.index, r.node)

\* ------------------------------------------------- MultitokenVp operators

\* Option<T>: None and Some(x).
NoValue == <<>>

Some(x) == <<x>>

\* Storage keys of the multitoken account.
BalanceKey(token, owner) ==
    [kind |-> "balance", token |-> token, owner |-> owner]

MintedBalanceKey(token) ==
    [kind |-> "minted", token |-> token, owner |-> "none"]

\* token::minter_key
MinterKey(token) == [kind |-> "minter", token |-> token, owner |-> "none"]

\* The keys a transaction may change, in the order of BTreeSet<Key>.
KeySeq ==
    <<BalanceKey("btc", "a1"), BalanceKey("nam", "a1"),
      BalanceKey("nam", "a2"), MintedBalanceKey("nam"), MinterKey("nam")>>

Keys == {KeySeq[i] : i \in DOMAIN KeySeq}

\* The keys that hold an Amount.
AmountKeys == {k \in Keys : k.kind # "minter"}

\* The tokens that have a minter key.
MintableTokens == {k.token : k \in {x \in Keys : x.kind = "minter"}}

\* Largest amount stored under a key.
MaxAmount == 2

\* Stored amounts: the key is absent or holds a positive amount.
AmountOpt == {NoValue} \cup {Some(a) : a \in 1..MaxAmount}

\* Addresses that may be the minter of a token or verify the transaction.
Addresses == {"ibc", "a1"}

\* token::is_any_token_balance_key
IsAnyTokenBalanceKey(key) == key.kind = "balance"

\* token::is_any_minted_balance_key
IsAnyMintedBalanceKey(key) == key.kind = "minted"

\* Ctx::read_pre: the value of the key before the transaction.
ReadPre(st, key) == st.pre[key]

\* Ctx::read_post: the value of the key after the transaction.
ReadPost(st, key) ==
    IF key.kind = "minter" THEN st.minter[key.token] ELSE st.post[key]

\* Option::unwrap_or_default on an Amount.
UnwrapOrDefault(v) == IF v = NoValue THEN 0 ELSE v[1]

\* validate_tx: `let diff = post.change() - pre.change();`
Diff(st, key) ==
    UnwrapOrDefault(ReadPost(st, key)) - UnwrapOrDefault(ReadPre(st, key))

\* Mutation of AddChange: the diff of a key replaces what was accumulated
\* for its token.
AddChange_Overwrite(map, token, diff) ==
    IF token \in DOMAIN map
    THEN [map EXCEPT ![token] = diff]
    ELSE [t \in DOMAIN map \cup {token} |->
             IF t = token THEN diff ELSE map[t]]

\* validate_tx: `match map.get_mut(token) { Some(c) => *c += diff,
\* None => _ = map.insert(token, diff) }`
AddChange(map, token, diff) ==
    IF token \in DOMAIN map
    THEN [map EXCEPT ![token] = @ + diff]
    ELSE [t \in DOMAIN map \cup {token} |->
             IF t = token THEN diff ELSE map[t]]

\* Mutation of MinterCheck: the verifier set is not consulted.
MinterCheck_NoVerifier(minter, verifiers) == minter # NoValue

\* validate_tx: the minter read from the post state must be set
\* (`None => return Ok(false)`) and among the verifiers
\* (`if !verifiers.contains(&minter) { return Ok(false); }`).
MinterCheck(minter, verifiers) ==
    minter # NoValue /\ minter[1] \in verifiers

\* Mutation of MintOf: every token is compared with the sum of all mints.
MintOf_Any(mints, token) ==
    IF DOMAIN mints = {} THEN 0
    ELSE mints[CHOOSE t \in DOMAIN mints : TRUE]

\* validate_tx: `match mints.get(token) { Some(mint) => *mint, None => 0 }`
MintOf(mints, token) == IF token \in DOMAIN mints THEN mints[token] ELSE 0

\* Mutation of AllBalanced: the tokens of mints are compared as well, a
\* token without a change counting as a change of 0.
AllBalanced_MintsToo(changes, mints) ==
    \A t \in DOMAIN changes \cup DOMAIN mints :
        (IF t \in DOMAIN changes THEN changes[t] ELSE 0) = MintOf(mints, t)

\* validate_tx: `changes.iter().all(|(token, change)| *change == mint)`
AllBalanced(changes, mints) ==
    \A t \in DOMAIN changes : changes[t] = MintOf(mints, t)

RECURSIVE ValidateLoop(_, _, _, _, _)
\* validate_tx: the loop over keys_changed, then the comparison of the
\* changes with the mints; TRUE is Ok(true), FALSE is Ok(false).
ValidateLoop(ks, st, verifiers, changes, mints) ==
    IF ks = <<>>
    THEN AllBalanced(changes, mints)
    ELSE LET key == Head(ks)
         IN  IF IsAnyTokenBalanceKey(key)
             THEN ValidateLoop(Tail(ks), st, verifiers,
                               AddChange(changes, key.token, Diff(st, key)),
                               mints)
             ELSE IF IsAnyMintedBalanceKey(key)
                  THEN IF MinterCheck(ReadPost(st, MinterKey(key.token)),
                                      verifiers)
                       THEN ValidateLoop(Tail(ks), st, verifiers, changes,
                                         AddChange(mints, key.token,
                                                   Diff(st, key)))
                       ELSE FALSE
                  ELSE ValidateLoop(Tail(ks), st, verifiers, changes, mints)

\* MultitokenVp::validate_tx
ValidateTx(keys_changed, st, verifiers) ==
    ValidateLoop(SelectSeq(KeySeq, LAMBDA k : k \in keys_changed), st,
                 verifiers, [t \in {} |-> 0], [t \in {} |-> 0])

\* ------------------------------------------------- VP storage host functions

\* Largest gas limit of a gas meter.
MaxGas == 6

\* Storage keys, stored values and VP code hashes.
EnvKeys == {"k1"}
EnvValues == {"x", "y"}
CodeHashes == {"h"}

\* Gas charged for a lookup in the write log and for an access of storage.
LogGas == 1
DbGas == 1

\* write_log::StorageModification; NoEntry is the `None` of a lookup.
NoEntry == [kind |-> "None"]
WriteMod(value) == [kind |-> "Write", value |-> value]
DeleteMod == [kind |-> "Delete"]
InitAccountMod(vp_code_hash) ==
    [kind |-> "InitAccount", vp_code_hash |-> vp_code_hash]
TempMod(value) == [kind |-> "Temp", value |-> value]

\* write_log::PersistentStorageModification, or no entry.
PersistentMods ==
    {NoEntry, DeleteMod} \cup {WriteMod(v) : v \in EnvValues}
        \cup {InitAccountMod(h) : h \in CodeHashes}

\* write_log::StorageModification, or no entry.
StorageMods == PersistentMods \cup {TempMod(v) : v \in EnvValues}

\* VpGasMeter::consume: the gas is added to the meter; the call fails when
\* the limit is exceeded.
Consume(meter, used_gas) ==
    [ok |-> meter.current + used_gas <= meter.limit,
     meter |-> [meter EXCEPT !.current = @ + used_gas]]

\* add_gas: `gas_meter.borrow_mut().consume(used_gas).map_err(OutOfGas)`
add_gas(gas_meter, used_gas) == Consume(gas_meter, used_gas)

\* WriteLog::read_pre: the modification of the key made before the
\* transaction, with the gas of the lookup.
WriteLogReadPre(state, key) == [log_val |-> state.pre_log[key], gas |-> LogGas]

\* WriteLog::read_persistent: the persistent modification of the key, with
\* the gas of the lookup.
WriteLogReadPersistent(state, key) ==
    [log_val |-> state.post_log[key], gas |-> LogGas]

\* StateRead::db_read: the value stored under the key, if any, with the gas
\* of the read; or a storage error.
DbRead(state, key) ==
    [err |-> state.db_fails, value |-> state.db[key], gas |-> DbGas]

\* StateRead::db_has_key: whether a value is stored under the key, with the
\* gas of the access; or a storage error.
DbHasKey(state, key) ==
    [err |-> state.db_fails, present |-> state.db[key] # NoValue,
     gas |-> DbGas]

\* EnvResult: Ok(value) or Err(error), with the gas meter after the call and
\* whether storage was accessed.
EnvOk(value, meter, db) ==
    [status |-> "Ok", value |-> value, meter |-> meter, db |-> db]
EnvErr(error, value, meter, db) ==
    [status |-> error, value |-> value, meter |-> meter, db |-> db]

\* read_pre / read_post, the arm that reads storage:
\* `state.db_read(key).map_err(StorageError)?; add_gas(gas_meter, gas)?;
\* Ok(value)`
ReadStorage(gas_meter, state, key) ==
    LET d == DbRead(state, key)
        g == add_gas(gas_meter, d.gas)
    IN  IF d.err THEN EnvErr("StorageError", NoValue, gas_meter, TRUE)
        ELSE IF ~g.ok THEN EnvErr("OutOfGas", NoValue, g.meter, TRUE)
        ELSE EnvOk(d.value, g.meter, TRUE)

\* has_key_pre / has_key_post, the arm that checks storage:
\* `state.db_has_key(key).map_err(StorageError)?; add_gas(gas_meter, gas)?;
\* Ok(present)`
HasKeyStorage(gas_meter, state, key) ==
    LET d == DbHasKey(state, key)
        g == add_gas(gas_meter, d.gas)
    IN  IF d.err THEN EnvErr("StorageError", FALSE, gas_meter, TRUE)
        ELSE IF ~g.ok THEN EnvErr("OutOfGas", FALSE, g.meter, TRUE)
        ELSE EnvOk(d.present, g.meter, TRUE)

\* read_pre
read_pre(gas_meter, state, key) ==
    LET r == WriteLogReadPre(state, key)
        g == add_gas(gas_meter, r.gas)
    IN  IF ~g.ok THEN EnvErr("OutOfGas", NoValue, g.meter, FALSE)
        ELSE CASE r.log_val.kind = "Write" ->
                      EnvOk(Some(r.log_val.value), g.meter, FALSE)
               [] r.log_val.kind = "Delete" -> EnvOk(NoValue, g.meter, FALSE)
               [] r.log_val.kind = "InitAccount" ->
                      EnvOk(Some(r.log_val.vp_code_hash), g.meter, FALSE)
               [] r.log_val.kind \in {"Temp", "None"} ->
                      ReadStorage(g.meter, state, key)

\* Mutation of read_post: a deleted key is looked up in storage.
read_post_DeleteFallsThrough(gas_meter, state, key) ==
    LET r == WriteLogReadPersistent(state, key)
        g == add_gas(gas_meter, r.gas)
    IN  IF ~g.ok THEN EnvErr("OutOfGas", NoValue, g.meter, FALSE)
        ELSE CASE r.log_val.kind = "Write" ->
                      EnvOk(Some(r.log_val.value), g.meter, FALSE)
               [] r.log_val.kind = "InitAccount" ->
                      EnvOk(Some(r.log_val.vp_code_hash), g.meter, FALSE)
               [] OTHER -> ReadStorage(g.meter, state, key)

\* read_post
read_post(gas_meter, state, key) ==
    LET r == WriteLogReadPersistent(state, key)
        g == add_gas(gas_meter, r.gas)
    IN  IF ~g.ok THEN EnvErr("OutOfGas", NoValue, g.meter, FALSE)
        ELSE CASE r.log_val.kind = "Write" ->
                      EnvOk(Some(r.log_val.value), g.meter, FALSE)
               [] r.log_val.kind = "Delete" -> EnvOk(NoValue, g.meter, FALSE)
               [] r.log_val.kind = "InitAccount" ->
                      EnvOk(Some(r.log_val.vp_code_hash), g.meter, FALSE)
               [] r.log_val.kind = "None" -> ReadStorage(g.meter, state, key)

\* Mutation of has_key_pre: a deleted key is looked up in storage.
has_key_pre_DeleteFallsThrough(gas_meter, state, key) ==
    LET r == WriteLogReadPre(state, key)
        g == add_gas(gas_meter, r.gas)
    IN  IF ~g.ok THEN EnvErr("OutOfGas", FALSE, g.meter, FALSE)
        ELSE CASE r.log_val.kind \in {"Write", "InitAccount"} ->
                      EnvOk(TRUE, g.meter, FALSE)
               [] OTHER -> HasKeyStorage(g.meter, state, key)

\* has_key_pre
has_key_pre(gas_meter, state, key) ==
    LET r == WriteLogReadPre(state, key)
        g == add_gas(gas_meter, r.gas)
    IN  IF ~g.ok THEN EnvErr("OutOfGas", FALSE, g.meter, FALSE)
        ELSE CASE r.log_val.kind = "Write" -> EnvOk(TRUE, g.meter, FALSE)
               [] r.log_val.kind = "Delete" -> EnvOk(FALSE, g.meter, FALSE)
               [] r.log_val.kind = "InitAccount" -> EnvOk(TRUE, g.meter, FALSE)
               [] r.log_val.kind \in {"Temp", "None"} ->
                      HasKeyStorage(g.meter, state, key)

\* has_key_post
has_key_post(gas_meter, state, key) ==
    LET r == WriteLogReadPersistent(state, key)
        g == add_gas(gas_meter, r.gas)
    IN  IF ~g.ok THEN EnvErr("OutOfGas", FALSE, g.meter, FALSE)
        ELSE CASE r.log_val.kind = "Write" -> EnvOk(TRUE, g.meter, FALSE)
               [] r.log_val.kind = "Delete" -> EnvOk(FALSE, g.meter, FALSE)
               [] r.log_val.kind = "InitAccount" -> EnvOk(TRUE, g.meter, FALSE)
               [] r.log_val.kind = "None" -> HasKeyStorage(g.meter, state, key)

\* The host functions that are called.
HostFns == {"read_pre", "read_post", "has_key_pre", "has_key_post"}

\* No call of the host function has been made.
NoCall == [key |-> "none", status |-> "none", value |-> NoValue, db |-> FALSE]

\* No validity predicate is using the host functions.
NoEnv ==
    [pc |-> "off", gas_meter |-> [current |-> 0, limit |-> 0],
     state |-> [pre_log |-> [k \in EnvKeys |-> NoEntry],
                post_log |-> [k \in EnvKeys |-> NoEntry],
                db |-> [k \in EnvKeys |-> NoValue], db_fails |-> FALSE],
     res |-> [f \in HostFns |-> NoCall]]

\* No validity predicate is run.
NoVp ==
    [pc |-> "off", keys_changed |-> {}, pre |-> [k \in AmountKeys |-> NoValue],
     post |-> [k \in AmountKeys |-> NoValue],
     minter |-> [t \in MintableTokens |-> NoValue], verifiers |-> {},
     result |-> FALSE]

\* ------------------------------------------------------------ initial state

IdleReader ==
    [pc |-> "idle", op |-> "none", query |-> "none", matcher |-> "none",
     snap |-> NoSnapshot, index |-> 0, node |-> None, yielded |-> <<>>,
     result |-> "none", via |-> "none", after |-> 0]

\* A reader task that is not running.
OffReader == [IdleReader EXCEPT !.pc = "off"]

NoHist ==
    [expected |-> <<>>, returned |-> 0, start |-> 0, end |-> 0,
     broadcast |-> FALSE, live |-> None, missed |-> FALSE, by |-> 0,
     idle |-> FALSE]

\* new() and EventLog::new(): an empty log, an empty channel; no reader
\* task yet.
NewLog ==
    /\ nodes = <<>>
    /\ num_events = 0
    /\ oldest_height = 0
    /\ head = None
    /\ wlock = FALSE
    /\ rlock = {}
    /\ listeners = {}
    /\ notified = {}
    /\ queue = <<>>
    /\ sent = 0
    /\ senders = {1}
    /\ sends = <<>>
    /\ wpc = "recv"
    /\ wentry = [block_height |-> 0, events |-> <<>>]
    /\ wlocal = [head |-> None, events |-> 0]
    /\ handed = <<>>
    /\ hist = [r \in Readers |-> NoHist]

\* The log after new(), with the first reader task.
Init ==
    /\ NewLog
    /\ rd = [r \in Readers |-> IF r = 1 THEN IdleReader ELSE OffReader]
    /\ vp = NoVp
    /\ env = NoEnv

\* The number of broadcasts add has issued.
Broadcasts ==
    IF wpc \in {"recv", "prune", "eos", "dropped"} \/ wentry.events = <<>>
    THEN Len(NonEmpty(handed))
    ELSE Len(NonEmpty(handed)) - 1

\* The number of add calls with a non-empty batch that have returned.
AddsReturned ==
    IF wpc \in {"recv", "eos", "dropped"} \/ wentry.events = <<>>
    THEN Len(NonEmpty(handed))
    ELSE Len(NonEmpty(handed)) - 1

\* ------------------------------------------------------ producer and Logger

\* The Logger (and with it the receiving half of the channel) exists.
LoggerAlive == wpc # "dropped"

\* Mutation of SendResult: a send to a dropped Logger is taken for a success.
SendResult_Always(alive) == TRUE

\* send_new_entry: `self.sender.send(entry).ok()`: the unbounded send
\* succeeds unless the receiving half is gone.
SendResult(alive) == alive

\* Mutation of RecvResult: the closure is reported as soon as the last
\* sender is gone, whatever the queue still holds.
RecvResult_CloseFirst(q, ss) ==
    IF ss = {} THEN "closed" ELSE IF q # <<>> THEN "entry" ELSE "pending"

\* log_new_entry: `self.receiver.recv().await`: the oldest queued entry;
\* None once every sender is dropped and the queue is drained; pending
\* otherwise.
RecvResult(q, ss) ==
    IF q # <<>> THEN "entry" ELSE IF ss = {} THEN "closed" ELSE "pending"

\* LogEntrySender::send_new_entry, called on the handle s.
SendNewEntry(s, e) ==
    /\ s \in senders
    /\ sent < MaxSends
    /\ LET ok == SendResult(LoggerAlive)
       IN  /\ queue' = IF ok THEN Append(queue, e) ELSE queue
           /\ sends' = Append(sends, [entry |-> e, sender |-> s, ok |-> ok,
                                      logger |-> LoggerAlive])
    /\ sent' = sent + 1
    /\ UNCHANGED <<logVars, wlock, rlock, listeners, notified, senders,
                   writerVars, rd, handed, hist, vpVars>>

\* #[derive(Clone)] on LogEntrySender: the handle s is cloned into t.
CloneSender(s, t) ==
    /\ s \in senders
    /\ t \in Senders \ senders
    /\ senders' = senders \cup {t}
    /\ UNCHANGED <<logVars, wlock, rlock, listeners, notified, queue, sent,
                   sends, writerVars, rd, handed, hist, vpVars>>

\* The handle s is dropped.
DropSender(s) ==
    /\ s \in senders
    /\ senders' = senders \ {s}
    /\ UNCHANGED <<logVars, wlock, rlock, listeners, notified, queue, sent,
                   sends, writerVars, rd, handed, hist, vpVars>>

\* The Logger is dropped by its owner, between two log_new_entry calls or
\* while one is pending on recv (add itself runs to completion inside
\* block_in_place); what the queue still held is never received.
DropLogger ==
    /\ wpc \in {"recv", "eos"}
    /\ wpc' = "dropped"
    /\ UNCHANGED <<logVars, wlock, rlock, listeners, notified, chanVars,
                   wentry, wlocal, rd, handed, hist, vpVars>>

\* Logger::log_new_entry: `self.receiver.recv().await?`, then add(entry).
LogNewEntry ==
    /\ wpc = "recv"
    /\ RecvResult(queue, senders) = "entry"
    /\ wentry' = Head(queue)
    /\ queue' = Tail(queue)
    /\ handed' = Append(handed, Head(queue))
    /\ wpc' = "add"
    /\ UNCHANGED <<logVars, wlock, rlock, listeners, notified, sent, senders,
                   sends, wlocal, rd, hist, vpVars>>

\* Logger::log_new_entry / run: recv gives None, `?` returns it: the end of
\* the stream.
EndOfStream ==
    /\ wpc = "recv"
    /\ RecvResult(queue, senders) = "closed"
    /\ wpc' = "eos"
    /\ UNCHANGED <<logVars, wlock, rlock, listeners, notified, chanVars,
                   wentry, wlocal, rd, handed, hist, vpVars>>

\* add: the check for an empty batch.
AddCheck ==
    /\ wpc = "add"
    /\ wpc' = IF IsEmptyBatch(wentry) THEN "recv" ELSE AddOrder("add")
    /\ UNCHANGED <<logVars, wlock, rlock, listeners, notified, chanVars,
                   wentry, wlocal, rd, handed, hist, vpVars>>

\* add: `self.inner.lock.write().unwrap()`
AddLock ==
    /\ wpc = "lock"
    /\ CanWrite(wlock, rlock)
    /\ wlock' = TRUE
    /\ wpc' = AddOrder("lock")
    /\ UNCHANGED <<logVars, rlock, listeners, notified, chanVars, wentry,
                   wlocal, rd, handed, hist, vpVars>>

\* add: `log.num_events += entry.events.len();`
AddCount ==
    /\ wpc = "count"
    /\ num_events' = AddNumEvents(num_events, wentry)
    /\ wpc' = AddOrder("count")
    /\ UNCHANGED <<nodes, oldest_height, head, wlock, rlock, listeners,
                   notified, chanVars, wentry, wlocal, rd, handed, hist,
                   vpVars>>

\* add: the new head is installed and (new_head, log.num_events) captured.
AddHead ==
    /\ wpc = "head"
    /\ LET new == InstallHead(nodes, head, wentry)
       IN  /\ nodes' = new.nodes
           /\ head' = new.head
           /\ wlocal' = [head |-> new.head, events |-> num_events]
    /\ wpc' = AddOrder("head")
    /\ UNCHANGED <<num_events, oldest_height, wlock, rlock, listeners,
                   notified, chanVars, wentry, rd, handed, hist, vpVars>>

\* add: the write guard is dropped at the end of the block.
AddUnlock ==
    /\ wpc = "unlock"
    /\ wlock' = FALSE
    /\ wpc' = AddOrder("unlock")
    /\ UNCHANGED <<logVars, rlock, listeners, notified, chanVars, wentry,
                   wlocal, rd, handed, hist, vpVars>>

\* add: `self.inner.notifier.notify(usize::MAX);`
AddNotify ==
    /\ wpc = "notify"
    /\ notified' = Notify(listeners, notified)
    /\ hist' = [r \in Readers |->
                   IF r \in listeners
                   THEN [hist[r] EXCEPT !.broadcast = TRUE,
                                        !.by = Len(NonEmpty(handed))]
                   ELSE hist[r]]
    /\ wpc' = AddOrder("notify")
    /\ UNCHANGED <<logVars, wlock, rlock, listeners, chanVars, wentry, wlocal,
                   rd, handed, vpVars>>

\* add: `self.prune(head, events);`, after which add returns.
AddPrune ==
    /\ wpc = "prune"
    /\ LET log == [nodes |-> nodes, num_events |-> num_events,
                   oldest_height |-> oldest_height, head |-> head]
           new == Prune(log, wlocal.head, wlocal.events)
       IN  /\ nodes' = new.nodes
           /\ num_events' = new.num_events
           /\ oldest_height' = new.oldest_height
           /\ head' = new.head
    /\ wpc' = AddOrder("prune")
    /\ UNCHANGED <<wlock, rlock, listeners, notified, chanVars, wentry, wlocal,
                   rd, handed, hist, vpVars>>

\* ------------------------------------------------------------------ readers

readerFrame == <<logVars, wlock, listeners, notified, chanVars, writerVars,
                 handed, vpVars>>

\* try_iter(query) is called.
CallTryIter(r, q) ==
    /\ rd[r].pc = "idle"
    /\ rd' = [rd EXCEPT ![r] = [IdleReader EXCEPT
                  !.pc = "parse", !.op = "try_iter", !.query = q]]
    /\ hist' = [hist EXCEPT ![r] = [NoHist EXCEPT
                  !.start = Len(NonEmpty(handed)),
                  !.idle = (wpc = "recv")]]
    /\ UNCHANGED <<readerFrame, rlock>>

\* wait_iter(deadline, query) is called.
CallWaitIter(r, q) ==
    /\ rd[r].pc = "idle"
    /\ rd' = [rd EXCEPT ![r] = [IdleReader EXCEPT
                  !.pc = "parse", !.op = "wait_iter", !.query = q]]
    /\ hist' = [hist EXCEPT ![r] = [NoHist EXCEPT
                  !.start = Len(NonEmpty(handed)),
                  !.idle = (wpc = "recv")]]
    /\ UNCHANGED <<readerFrame, rlock>>

\* try_iter / wait_iter: `QueryMatcher::parse(query).ok_or(InvalidQuery)?`
Parse(r) ==
    /\ rd[r].pc = "parse"
    /\ LET m == ParseQuery(rd[r].query)
           to == AfterParse(rd[r].op, m)
       IN  rd' = [rd EXCEPT ![r].matcher = m,
                            ![r].pc = to,
                            ![r].result = IF to = "done" THEN "InvalidQuery"
                                          ELSE @]
    /\ UNCHANGED <<readerFrame, rlock, hist>>

\* wait_iter: `self.inner.notifier.listen()` registers a new listener.
Listen(r) ==
    /\ rd[r].pc = "listen"
    /\ listeners' = listeners \cup {r}
    /\ notified' = notified \ {r}
    /\ rd' = [rd EXCEPT ![r].pc = "await"]
    /\ hist' = [hist EXCEPT
                  ![r].missed = (hist[r].start = 0 /\ Broadcasts >= 1)]
    /\ UNCHANGED <<logVars, wlock, rlock, chanVars, writerVars, handed,
                   vpVars>>

\* wait_iter: the listener was notified, `.await` completes.
Wake(r) ==
    /\ rd[r].pc = "await"
    /\ r \in notified
    /\ listeners' = listeners \ {r}
    /\ rd' = [rd EXCEPT ![r].pc = "snapshot", ![r].via = "woken"]
    /\ hist' = [hist EXCEPT ![r].end = AddsReturned]
    /\ UNCHANGED <<logVars, wlock, rlock, notified, chanVars, writerVars,
                   handed, vpVars>>

\* wait_iter: `timeout_at` polls the loop first and the deadline second; the
\* deadline elapses while the listener is still pending, the loop (and its
\* listener) is dropped and the final attempt follows.
Timeout(r) ==
    /\ rd[r].pc = "await"
    /\ r \notin notified
    /\ listeners' = listeners \ {r}
    /\ rd' = [rd EXCEPT ![r].pc = "snapshot", ![r].via = "timeout"]
    /\ hist' = [hist EXCEPT ![r].end = AddsReturned]
    /\ UNCHANGED <<logVars, wlock, rlock, notified, chanVars, writerVars,
                   handed, vpVars>>

\* snapshot: the read lock is taken and the three fields are copied.
SnapshotRead(r) ==
    /\ rd[r].pc = "snapshot"
    /\ CanRead(wlock)
    /\ rlock' = rlock \cup {r}
    /\ rd' = [rd EXCEPT ![r].snap = Snapshot(head, num_events, oldest_height),
                        ![r].pc = "unlock"]
    /\ hist' = [hist EXCEPT
                  ![r].expected = Collect(nodes, rd[r].matcher, 0, head),
                  ![r].live = head,
                  ![r].returned = AddsReturned]
    /\ head' = HeadAfterClone(head)
    /\ UNCHANGED <<nodes, num_events, oldest_height, wlock, listeners,
                   notified, chanVars, writerVars, handed, vpVars>>

\* snapshot returns (the read guard is dropped); try_iter_with_matcher builds
\* the iterator or fails with EmptyLog, which the loop of wait_iter retries.
SnapshotReturn(r) ==
    /\ rd[r].pc = "unlock"
    /\ rlock' = DropReadGuard(rlock, r)
    /\ LET res == IF rd[r].via = "timeout"
                  THEN OnDeadline(TryIterResult(rd[r].snap))
                  ELSE TryIterResult(rd[r].snap)
       IN  rd' = [rd EXCEPT ![r] =
                    IF res = "Ok"
                    THEN [@ EXCEPT !.pc = "iter", !.result = "Ok",
                                   !.index = 0, !.node = rd[r].snap.head]
                    ELSE IF res = "EmptyLog"
                            /\ RetriesEmptyLog(rd[r].op, rd[r].via)
                         THEN [@ EXCEPT !.pc = "listen"]
                         ELSE [@ EXCEPT !.pc = "done", !.result = res]]
    /\ UNCHANGED <<readerFrame, hist>>

\* EventLogIterator::next, called by the holder of the iterator, also
\* after the iterator has returned None.
IteratorNext(r) ==
    /\ \/ rd[r].pc = "iter"
       \/ rd[r].pc = "end" /\ rd[r].after < MaxAfterEnd
    /\ LET n == IterNext(nodes, rd[r].matcher, rd[r].index, rd[r].node)
       IN  rd' = [rd EXCEPT ![r].index = n.index, ![r].node = n.node,
                            ![r].yielded = IF n.item = NoEvent THEN @
                                           ELSE Append(@, n.item),
                            ![r].pc = IF n.item = NoEvent THEN "end" ELSE @,
                            ![r].after = IF rd[r].pc = "end" THEN @ + 1
                                         ELSE @]
    /\ UNCHANGED <<readerFrame, rlock, hist>>

\* -------------------------------------------------------------- next-state

\* The steps of the Logger while the channel is open.
LoggerStep ==
    \/ LogNewEntry
    \/ AddCheck
    \/ AddLock
    \/ AddCount
    \/ AddHead
    \/ AddUnlock
    \/ AddNotify
    \/ AddPrune

\* The steps of the Logger and of the readers.
LoggerOrReader ==
    \/ LoggerStep
    \/ \E r \in Readers, q \in Queries : CallTryIter(r, q)
    \/ \E r \in Readers, q \in Queries : CallWaitIter(r, q)
    \/ \E r \in Readers : Parse(r)
    \/ \E r \in Readers : Listen(r)
    \/ \E r \in Readers : Wake(r)
    \/ \E r \in Readers : Timeout(r)
    \/ \E r \in Readers : SnapshotRead(r)
    \/ \E r \in Readers : SnapshotReturn(r)
    \/ \E r \in Readers : IteratorNext(r)

Next ==
    \/ \E s \in Senders, e \in LogEntry : SendNewEntry(s, e)
    \/ LoggerOrReader

Spec == Init /\ [][Next]_vars

\* The life of the channel: handles are cloned and dropped, the Logger runs
\* until the end of the stream or until it is dropped.
NextChannel ==
    \/ \E s \in Senders, e \in LogEntry : SendNewEntry(s, e)
    \/ \E s, t \in Senders : CloneSender(s, t)
    \/ \E s \in Senders : DropSender(s)
    \/ DropLogger
    \/ EndOfStream
    \/ LoggerStep

\* The channel and the Logger, from new() to their closure.
SpecChannel == Init /\ [][NextChannel]_vars

\* The entries of the runs with several readers: the blocks of one height.
SameHeightEntry == [block_height : {0}, events : Batches]

\* Every reader task is running.
InitReaders ==
    /\ NewLog
    /\ rd = [r \in Readers |-> IdleReader]
    /\ vp = NoVp
    /\ env = NoEnv

NextReaders ==
    \/ \E s \in Senders, e \in SameHeightEntry : SendNewEntry(s, e)
    \/ LoggerOrReader

\* The log with all its readers running concurrently.
SpecReaders == InitReaders /\ [][NextReaders]_vars

\* The entries of the parallel reads: blocks of two events each, both of the
\* type the valid query names, at two heights.
ParallelEntry ==
    {[block_height |-> 0,
      events |-> <<Event("accepted", "A"), Event("accepted", "B")>>],
     [block_height |-> 1,
      events |-> <<Event("accepted", "C"), Event("accepted", "D")>>]}

NextParallel ==
    \/ \E s \in Senders, e \in ParallelEntry : SendNewEntry(s, e)
    \/ LoggerOrReader

\* The readers running concurrently against a log of such blocks.
SpecParallel == InitReaders /\ [][NextParallel]_vars

\* The variables of the event log.
eventLogVars ==
    <<logVars, wlock, rlock, listeners, notified, chanVars, writerVars, rd,
      handed, hist>>

\* A transaction's effect on the multitoken storage and the verifier set it
\* comes with; a key the transaction did not change is not read and is left
\* absent.
InitVp ==
    /\ NewLog
    /\ rd = [r \in Readers |-> OffReader]
    /\ \E kc \in SUBSET Keys, pre \in [AmountKeys -> AmountOpt],
          post \in [AmountKeys -> AmountOpt],
          minter \in [MintableTokens -> {NoValue} \cup {Some("ibc")}],
          vs \in SUBSET Addresses :
          /\ \A k \in AmountKeys \ kc : pre[k] = NoValue /\ post[k] = NoValue
          /\ vp = [pc |-> "ready", keys_changed |-> kc, pre |-> pre,
                   post |-> post, minter |-> minter, verifiers |-> vs,
                   result |-> FALSE]
    /\ env = NoEnv

\* The multitoken VP is run on the transaction.
RunValidateTx ==
    /\ vp.pc = "ready"
    /\ vp' = [vp EXCEPT !.pc = "done",
                        !.result = ValidateTx(vp.keys_changed, vp,
                                              vp.verifiers)]
    /\ UNCHANGED <<eventLogVars, env>>

NextVp == RunValidateTx

\* The multitoken VP over the transactions of InitVp.
SpecVp == InitVp /\ [][NextVp]_vars

\* A validity predicate starts with a gas meter that has used nothing, over
\* any write log and storage.
InitEnv ==
    /\ NewLog
    /\ rd = [r \in Readers |-> OffReader]
    /\ vp = NoVp
    /\ \E limit \in 0..MaxGas, pre_log \in [EnvKeys -> StorageMods],
          post_log \in [EnvKeys -> PersistentMods],
          db \in [EnvKeys -> {NoValue} \cup {Some(v) : v \in EnvValues}],
          db_fails \in BOOLEAN :
          env = [NoEnv EXCEPT
                   !.pc = "running",
                   !.gas_meter = [current |-> 0, limit |-> limit],
                   !.state = [pre_log |-> pre_log, post_log |-> post_log,
                              db |-> db, db_fails |-> db_fails]]

\* The validity predicate has called host function f on the key and got r:
\* the gas stays consumed, and an error aborts the validity predicate.
Returned(f, key, r) ==
    /\ env' = [env EXCEPT
                 !.gas_meter = r.meter,
                 !.res[f] = [key |-> key, status |-> r.status,
                             value |-> r.value, db |-> r.db],
                 !.pc = IF r.status = "Ok" THEN "running" ELSE "aborted"]
    /\ UNCHANGED <<eventLogVars, vp>>

CallReadPre(key) ==
    /\ env.pc = "running"
    /\ Returned("read_pre", key, read_pre(env.gas_meter, env.state, key))

CallReadPost(key) ==
    /\ env.pc = "running"
    /\ Returned("read_post", key, read_post(env.gas_meter, env.state, key))

CallHasKeyPre(key) ==
    /\ env.pc = "running"
    /\ Returned("has_key_pre", key,
                has_key_pre(env.gas_meter, env.state, key))

CallHasKeyPost(key) ==
    /\ env.pc = "running"
    /\ Returned("has_key_post", key,
                has_key_post(env.gas_meter, env.state, key))

NextEnv ==
    \E key \in EnvKeys :
        \/ CallReadPre(key)
        \/ CallReadPost(key)
        \/ CallHasKeyPre(key)
        \/ CallHasKeyPost(key)

\* The host functions over the write logs, storages and gas limits of
\* InitEnv.
SpecEnv == InitEnv /\ [][NextEnv]_vars

\* The steps of a call that its task takes once scheduled; Timeout is the
\* deadline of wait_iter elapsing.
ReaderStep(r) ==
    \/ Parse(r)
    \/ Listen(r)
    \/ Wake(r)
    \/ Timeout(r)
    \/ SnapshotRead(r)
    \/ SnapshotReturn(r)

\* The straight-line code add runs while it holds the write lock.
AddCritical == AddCount \/ AddHead \/ AddUnlock

\* Spec with the scheduling the runtime gives: a task that can take a step
\* is eventually run, a deadline eventually elapses, and the writer leaves
\* its critical section.
SpecFair ==
    /\ Spec
    /\ \A r \in Readers : WF_vars(ReaderStep(r))
    /\ WF_vars(AddCritical)

\* ------------------------------------------------------------------ claims

\* The references a reader's snapshot reaches, newest first.
SnapEntries(r) == EntriesFrom(nodes, rd[r].snap.head)

\* The reader holds the result of a snapshot() call.
HoldsSnapshot(r) == rd[r].pc \in {"unlock", "iter", "end"}

\* C1: a snapshot taken once every add call made so far has completed
\* reaches exactly the entries added with a non-empty batch, newest first
\* (and is None only when there is none).
C1_SnapshotReachesAll ==
    \A r \in Readers :
        (rd[r].pc = "unlock" /\ wpc = "recv")
            => SnapEntries(r) = Reverse(NonEmpty(handed))

C1_Witness ==
    \E r \in Readers :
        /\ rd[r].pc = "unlock"
        /\ wpc = "recv"
        /\ Len(SnapEntries(r)) = 2
        /\ SnapEntries(r)[1] # SnapEntries(r)[2]

\* C2: snapshot isolation: what an iterator has yielded followed by what it
\* still yields is, whatever add and prune did since, the sequence of
\* matching events reachable from the head when its snapshot was taken.
C2_SnapshotIsolation ==
    \A r \in Readers :
        rd[r].pc \in {"iter", "end"}
            => rd[r].yielded
                 \o Collect(nodes, rd[r].matcher, rd[r].index, rd[r].node)
               = hist[r].expected

C2_Witness ==
    \E r \in Readers :
        /\ rd[r].pc = "iter"
        /\ rd[r].yielded # <<>>
        /\ head # rd[r].snap.head
        /\ wpc = "recv"

\* Block-height span between the newest and the oldest retained entry.
HeightSpan(ns, h) ==
    IF h = None THEN 0
    ELSE ns[h].entry.block_height
           - ns[Chain(ns, h)[Len(Chain(ns, h))]].entry.block_height

\* C3: when add has returned to the writer loop, num_events is at most
\* MAX_LOG_EVENTS and the height span between the newest and the oldest
\* retained entry is at most LOG_BLOCK_HEIGHT_DIFF.
C3_LimitsHoldAfterAdd ==
    wpc = "recv"
        => /\ num_events <= MAX_LOG_EVENTS
           /\ HeightSpan(nodes, head) <= LOG_BLOCK_HEIGHT_DIFF

\* C4: whenever the lock is not held for writing, num_events is the sum of
\* the batch lengths over the nodes reachable from head.
C4_NumEventsIsSum == ~wlock => num_events = SumLens(nodes, head)

C4_Witness ==
    /\ ~wlock
    /\ Len(Chain(nodes, head)) = 2
    /\ num_events = 3

\* C5: whenever the lock is not held for writing, head is empty if and only
\* if num_events is 0.
C5_HeadEmptyIffNoEvents == ~wlock => ((head = None) <=> (num_events = 0))

C5_Witness ==
    /\ wpc = "recv"
    /\ Len(handed) = 2
    /\ handed[1].events = <<>>
    /\ handed[2].events # <<>>
    /\ head # None

\* The entries were handed to add in non-decreasing block-height order.
InOrder(es) ==
    \A i, j \in DOMAIN es : i < j => es[i].block_height <= es[j].block_height

\* C6 as stated: when add gets its entries in non-decreasing block-height
\* order, the walk from head visits strictly decreasing block heights.
C6_StrictlyDecreasing ==
    InOrder(handed)
        => \A i, j \in DOMAIN EntriesFrom(nodes, head) :
              i < j => EntriesFrom(nodes, head)[i].block_height
                         > EntriesFrom(nodes, head)[j].block_height

\* C6 amended: when add gets its entries in non-decreasing block-height
\* order, the walk from head visits non-increasing block heights.
C6_NonIncreasing ==
    InOrder(handed)
        => \A i, j \in DOMAIN EntriesFrom(nodes, head) :
              i < j => EntriesFrom(nodes, head)[i].block_height
                         >= EntriesFrom(nodes, head)[j].block_height

C6_Witness ==
    /\ InOrder(handed)
    /\ Len(Chain(nodes, head)) = 2
    /\ EntriesFrom(nodes, head)[1].block_height
         > EntriesFrom(nodes, head)[2].block_height

\* Block height of the oldest entry reachable from h.
OldestEntryHeight(ns, h) ==
    ns[Chain(ns, h)[Len(Chain(ns, h))]].entry.block_height

\* C7: whenever the log is not empty, oldest_height is the block height of
\* the last node reachable from head, in the live log and in every snapshot.
C7_OldestHeight ==
    /\ (~wlock /\ head # None)
          => oldest_height = OldestEntryHeight(nodes, head)
    /\ \A r \in Readers :
          (HoldsSnapshot(r) /\ rd[r].snap.head # None)
              => rd[r].snap.oldest_height
                   = OldestEntryHeight(nodes, rd[r].snap.head)

\* C8: a snapshot holds the entries in the order of the add calls, without a
\* gap: its entries, oldest first, are the first ones added, and they
\* include every entry whose add had returned when the snapshot was taken.
C8_VisibleInAddOrder ==
    \A r \in Readers :
        HoldsSnapshot(r)
            => /\ IsPrefix(Reverse(SnapEntries(r)), NonEmpty(handed))
               /\ Len(SnapEntries(r)) >= hist[r].returned

C8_Witness ==
    \E r \in Readers :
        /\ rd[r].pc = "iter"
        /\ hist[r].returned = 1
        /\ Len(SnapEntries(r)) = 1
        /\ Len(Chain(nodes, head)) = 2

\* C9: no snapshot is torn: its num_events is the sum of the batch lengths
\* reachable from its head, also when it was taken while an add was under way.
C9_NoTornSnapshot ==
    \A r \in Readers :
        HoldsSnapshot(r)
            => rd[r].snap.num_events = SumLens(nodes, rd[r].snap.head)

C9_Witness ==
    \E r \in Readers :
        /\ rd[r].pc = "unlock"
        /\ rd[r].snap.head # None
        /\ wpc = "lock"

\* wait_iter was called with a valid query and has returned.
WaitIterReturned(r) ==
    /\ rd[r].op = "wait_iter"
    /\ rd[r].matcher # "none"
    /\ rd[r].result # "none"

\* An add of a non-empty entry began after the call and had returned when
\* the wait of the call ended.
AddedDuringCall(r) == hist[r].end > hist[r].start

\* C10 as stated: a wait_iter call during which an add of a non-empty entry
\* took place returns an iterator through the wake-up, not through the
\* deadline, in every interleaving.
C10_WokenInEveryInterleaving ==
    \A r \in Readers :
        (WaitIterReturned(r) /\ AddedDuringCall(r))
            => (rd[r].result = "Ok" /\ rd[r].via = "woken")

\* C10 amended: such a call returns an iterator that holds the entry; it
\* returns through the wake-up, without waiting for the deadline, whenever
\* add broadcast its notification while the listener of the call was
\* registered.
C10_WokenWhenRegistered ==
    \A r \in Readers :
        WaitIterReturned(r)
            => /\ AddedDuringCall(r)
                    => /\ rd[r].result = "Ok"
                       /\ Len(SnapEntries(r)) >= hist[r].end
                       /\ IsPrefix(Reverse(SnapEntries(r)), NonEmpty(handed))
               /\ hist[r].broadcast
                    => (rd[r].result = "Ok" /\ rd[r].via = "woken")

C10_Witness ==
    \E r \in Readers :
        /\ WaitIterReturned(r)
        /\ AddedDuringCall(r)
        /\ hist[r].broadcast
        /\ hist[r].start = 0
        /\ rd[r].via = "woken"
        /\ rd[r].pc = "end"
        /\ rd[r].yielded # <<>>

\* C11: every wait_iter call returns: once called, it reaches a result
\* (through a wake-up or, at the latest, through its deadline), whatever the
\* writer does.
C11_WaitIterReturns ==
    \A r \in Readers :
        (rd[r].op = "wait_iter" /\ rd[r].pc = "parse")
            ~> (rd[r].op = "wait_iter" /\ rd[r].result # "none")

C11_Witness ==
    \E r \in Readers :
        /\ rd[r].op = "wait_iter"
        /\ rd[r].result = "EmptyLog"
        /\ rd[r].via = "timeout"
        /\ handed # <<>>

\* C12: a wait_iter call with a valid query returns EmptyLog only through
\* its deadline and only when the log was empty at the final attempt; a call
\* that finds the log empty at its last attempt returns EmptyLog, through the
\* deadline.
C12_EmptyLogOnlyAtDeadline ==
    \A r \in Readers :
        WaitIterReturned(r)
            => /\ rd[r].result = "EmptyLog"
                    => (rd[r].via = "timeout" /\ hist[r].live = None)
               /\ hist[r].live = None
                    => (rd[r].result = "EmptyLog" /\ rd[r].via = "timeout")

C12_Witness ==
    \E r \in Readers :
        /\ WaitIterReturned(r)
        /\ rd[r].result = "EmptyLog"
        /\ head = None
        /\ sent = 0

\* C13: wait_iter never returns Timeout; a call that ran into its deadline
\* returns the result of one more attempt: an iterator when the log was not
\* empty at that moment, EmptyLog when it was.
C13_NeverTimeout ==
    \A r \in Readers :
        /\ rd[r].result # "Timeout"
        /\ (WaitIterReturned(r) /\ rd[r].via = "timeout")
              => /\ hist[r].live # None
                      => (rd[r].result = "Ok" /\ rd[r].snap.head = hist[r].live)
                 /\ hist[r].live = None => rd[r].result = "EmptyLog"

C13_Witness ==
    \E r \in Readers :
        /\ WaitIterReturned(r)
        /\ rd[r].via = "timeout"
        /\ rd[r].result = "Ok"
        /\ hist[r].start = 1

\* C14: wait_iter with a malformed query does nothing but fail with
\* InvalidQuery: it never registers a listener, never waits and never looks
\* at the log.
C14_WaitIterInvalidQuery ==
    \A r \in Readers :
        (rd[r].op = "wait_iter" /\ ParseQuery(rd[r].query) = "none")
            => /\ rd[r].pc \in {"parse", "done"}
               /\ rd[r].pc = "done" => rd[r].result = "InvalidQuery"
               /\ r \notin listeners
               /\ r \notin rlock

C14_Witness ==
    \E r \in Readers :
        /\ rd[r].op = "wait_iter"
        /\ rd[r].result = "InvalidQuery"
        /\ hist[r].start = 1
        /\ head # None

\* The call of r has returned an iterator that reaches the first entry added.
HoldsFirstEntry(r) ==
    /\ rd[r].result = "Ok"
    /\ SnapEntries(r) # <<>>
    /\ NonEmpty(handed) # <<>>
    /\ SnapEntries(r)[Len(SnapEntries(r))] = NonEmpty(handed)[1]

\* C16: a wait_iter call that started on an empty log and registered its
\* listener only after the broadcast of the first entry does not hang: it
\* returns, at the next broadcast or at its deadline, an iterator that
\* includes the first entry.
C16_MissedBroadcastReturns ==
    \A r \in Readers :
        (rd[r].pc = "await" /\ hist[r].missed) ~> HoldsFirstEntry(r)

C16_Witness ==
    \E r \in Readers :
        /\ hist[r].missed
        /\ rd[r].via = "timeout"
        /\ HoldsFirstEntry(r)
        /\ rd[r].pc = "end"

\* C17: add with an empty event list returns at once and leaves num_events,
\* oldest_height and head (and every node) as they are.
C17_EmptyAddChangesNothing ==
    [][(wpc = "add" /\ wentry.events = <<>>)
          => (wpc' \in {"add", "recv"} /\ UNCHANGED logVars)]_vars

C17_Witness ==
    /\ wpc = "recv"
    /\ Len(handed) = 2
    /\ handed[1].events # <<>>
    /\ handed[2].events = <<>>
    /\ Len(Chain(nodes, head)) = 1

\* C18: try_iter with a valid query fails with EmptyLog as long as no entry
\* with a non-empty batch has been handed to add, whatever number of empty
\* batches has been.
C18_TryIterEmptyLog ==
    \A r \in Readers :
        (rd[r].op = "try_iter" /\ rd[r].matcher # "none"
           /\ rd[r].result # "none" /\ NonEmpty(handed) = <<>>)
            => rd[r].result = "EmptyLog"

C18_Witness ==
    \E r \in Readers :
        /\ rd[r].op = "try_iter"
        /\ rd[r].result = "EmptyLog"
        /\ hist[r].start = 0
        /\ Len(handed) = 2
        /\ wpc = "recv"
        /\ NonEmpty(handed) = <<>>

\* C19: try_iter with an invalid query fails with InvalidQuery before the
\* log is looked at: it takes no snapshot, whether the log is empty or not.
C19_TryIterInvalidQuery ==
    \A r \in Readers :
        (rd[r].op = "try_iter" /\ ParseQuery(rd[r].query) = "none")
            => /\ rd[r].pc \in {"parse", "done"}
               /\ rd[r].pc = "done" => rd[r].result = "InvalidQuery"
               /\ r \notin rlock
               /\ rd[r].snap = NoSnapshot

C19_Witness ==
    \E r \in Readers :
        /\ rd[r].op = "try_iter"
        /\ rd[r].result = "InvalidQuery"
        /\ head = None
        /\ handed = <<>>

\* C15: one broadcast wakes every waiter: a wait_iter call whose listener
\* was registered when add issued a notification is notified by it, and
\* leaves its wait through the wake-up, not through its deadline.
C15_BroadcastWakesAll ==
    \A r \in Readers :
        hist[r].broadcast
            => IF rd[r].pc = "await" THEN r \in notified
               ELSE rd[r].via = "woken"

C15_Witness ==
    \E r1, r2 \in Readers :
        /\ r1 # r2
        /\ Len(NonEmpty(handed)) = 1
        /\ hist[r1].broadcast /\ rd[r1].via = "woken" /\ rd[r1].result = "Ok"
        /\ hist[r2].broadcast /\ rd[r2].via = "woken" /\ rd[r2].result = "Ok"

\* The try_iter call of r has returned and, if it gave an iterator, the
\* iterator has been stepped to its end.
TryIterFinished(r) ==
    /\ rd[r].op = "try_iter"
    /\ rd[r].matcher # "none"
    /\ rd[r].pc \in {"done", "end"}

RECURSIVE Reference(_, _, _)
\* The reference sequence of a snapshot: the events of its entries, newest
\* entry first, within an entry in batch order, that the matcher accepts.
Reference(ns, m, h) ==
    IF h = None THEN <<>>
    ELSE SelectSeq(ns[h].entry.events, LAMBDA e : Matches(m, e))
           \o Reference(ns, m, ns[h].next)

IsSuffix(s, t) ==
    Len(s) <= Len(t) /\ \A i \in DOMAIN s : s[i] = t[Len(t) - Len(s) + i]

\* The try_iter call of r gave an iterator that has been stepped to its end.
IteratedToEnd(r) == TryIterFinished(r) /\ rd[r].result = "Ok"

C22_YieldsReference ==
    \A r \in Readers :
        /\ rd[r].pc = "iter"
              => IsPrefix(rd[r].yielded,
                          Reference(nodes, rd[r].matcher, rd[r].snap.head))
        /\ rd[r].pc = "end"
              => /\ rd[r].yielded
                      = Reference(nodes, rd[r].matcher, rd[r].snap.head)
                 /\ \A i \in DOMAIN rd[r].yielded :
                        Matches(rd[r].matcher, rd[r].yielded[i])

C22_Witness ==
    \E r \in Readers :
        /\ rd[r].pc = "end"
        /\ Len(SnapEntries(r)) = 2
        /\ Len(rd[r].yielded) = 2
        /\ SumLens(nodes, rd[r].snap.head) = 4
        /\ rd[r].yielded[1].hash = "B"

\* The entries of the send_new_entry calls that reported a success.
EnqueuedEntries ==
    LET ok == SelectSeq(sends, LAMBDA c : c.ok)
    IN  [i \in DOMAIN ok |-> ok[i].entry]

\* The successful sends made on the handle s.
SendsOf(s) == SelectSeq(sends, LAMBDA c : c.ok /\ c.sender = s)

\* C23: send_new_entry never blocks (it can be called on any live handle in
\* any state of the log) and fails exactly when the Logger has been dropped;
\* an entry whose send failed reaches neither the queue nor add, one whose
\* send succeeded was enqueued, its event list empty or not.
C23_SendFailsIffLoggerDropped ==
    /\ \A s \in senders, e \in LogEntry :
          sent < MaxSends => ENABLED SendNewEntry(s, e)
    /\ \A i \in DOMAIN sends : sends[i].ok <=> sends[i].logger
    /\ handed \o queue = EnqueuedEntries

C23_Witness ==
    /\ Len(sends) = 2
    /\ sends[1].ok
    /\ sends[1].entry.events = <<>>
    /\ ~sends[2].ok
    /\ sends[2].entry.events # <<>>
    /\ handed = <<sends[1].entry>>
    /\ head = None

\* C24: nothing enqueued is lost and the order of the sends is kept: what
\* add was handed followed by what the queue holds is the sequence of the
\* entries enqueued, in send order (hence in the send order of each
\* sender); the end of the stream is reported only once every sender is
\* dropped and the queue is drained, every entry enqueued having been handed
\* to add.
C24_NoLossBeforeEndOfStream ==
    /\ handed \o queue = EnqueuedEntries
    /\ \A s \in Senders :
          LET mine == SendsOf(s)
              got == SelectSeq(SubSeq(SelectSeq(sends, LAMBDA c : c.ok),
                                      1, Len(handed)),
                               LAMBDA c : c.sender = s)
          IN  IsPrefix(got, mine)
    /\ wpc = "eos"
          => /\ senders = {}
             /\ queue = <<>>
             /\ handed = EnqueuedEntries

C24_Witness ==
    /\ wpc = "eos"
    /\ Len(handed) = 2
    /\ sends[1].sender # sends[2].sender
    /\ handed[1] # handed[2]
    /\ Len(Chain(nodes, head)) = 2

\* The changed balance keys of a token.
ChangedBalanceKeys(t) ==
    {k \in vp.keys_changed : k.kind = "balance" /\ k.token = t}

\* post - pre of a key, an absent amount counting as 0.
Delta(k) ==
    (IF vp.post[k] = NoValue THEN 0 ELSE vp.post[k][1])
      - (IF vp.pre[k] = NoValue THEN 0 ELSE vp.pre[k][1])

RECURSIVE SumDelta(_)
SumDelta(ks) ==
    IF ks = {} THEN 0
    ELSE LET k == CHOOSE x \in ks : TRUE IN Delta(k) + SumDelta(ks \ {k})

\* The change of the minted balance of a token, 0 when its key is unchanged.
MintedDelta(t) ==
    IF MintedBalanceKey(t) \in vp.keys_changed
    THEN Delta(MintedBalanceKey(t)) ELSE 0

\* The tokens whose minted-balance key is among the changed keys.
MintedTokens == {k.token : k \in {x \in vp.keys_changed : x.kind = "minted"}}

\* The minter of the token is set in the post state and is a verifier.
MinterVerifies(t) ==
    vp.minter[t] # NoValue /\ vp.minter[t][1] \in vp.verifiers

\* C25: when the minter checks pass, validate_tx accepts exactly when, for
\* every token with a changed balance key, the changes of its changed
\* balance keys sum up to the change of its minted balance (0 when the
\* minted-balance key is unchanged).
C25_AcceptsIffBalanced ==
    (vp.pc = "done" /\ \A t \in MintedTokens : MinterVerifies(t))
        => (vp.result
              <=> \A t \in {k.token : k \in vp.keys_changed} :
                     ChangedBalanceKeys(t) # {}
                         => SumDelta(ChangedBalanceKeys(t)) = MintedDelta(t))

C25_Witness ==
    /\ vp.pc = "done"
    /\ vp.result
    /\ MintedTokens = {"nam"}
    /\ MintedDelta("nam") = 1
    /\ Cardinality(ChangedBalanceKeys("nam")) = 2
    /\ Delta(BalanceKey("nam", "a1")) = -1
    /\ ChangedBalanceKeys("btc") # {}
    /\ vp.pre[BalanceKey("btc", "a1")] = NoValue

\* C26: whenever a token's minted-balance key is among the changed keys and
\* the token's minter is not set in the post state or is not a verifier,
\* validate_tx returns false, whatever the balances are.
C26_RejectsWithoutMinter ==
    (vp.pc = "done" /\ \E t \in MintedTokens : ~MinterVerifies(t))
        => ~vp.result

C26_Witness ==
    /\ vp.pc = "done"
    /\ ~vp.result
    /\ MintedTokens = {"nam"}
    /\ vp.minter["nam"] = Some("ibc")
    /\ vp.verifiers = {"a1"}
    /\ MinterKey("nam") \in vp.keys_changed
    /\ ChangedBalanceKeys("nam") = {BalanceKey("nam", "a1")}
    /\ Delta(BalanceKey("nam", "a1")) = MintedDelta("nam")
    /\ MintedDelta("nam") = 2

\* The reader was woken by a broadcast and has taken its snapshot since.
WokenWithSnapshot(r) ==
    /\ rd[r].op = "wait_iter"
    /\ rd[r].via = "woken"
    /\ HoldsSnapshot(r)

\* C27: add broadcasts with the new head installed and the write lock
\* released, so the attempt a wait_iter call makes after a wake-up finds a
\* log that is not empty: it gives an iterator, and the iterator reaches the
\* entry whose add issued the broadcast.
C27_WokenFindsEntry ==
    /\ wpc = "notify"
          => /\ ~wlock
             /\ head # None
             /\ head = wlocal.head
             /\ nodes[head].entry = wentry
    /\ \A r \in Readers :
          WokenWithSnapshot(r)
              => /\ rd[r].snap.head # None
                 /\ rd[r].pc # "unlock" => rd[r].result = "Ok"
                 /\ hist[r].by >= 1
                 /\ Len(SnapEntries(r)) >= hist[r].by
                 /\ Reverse(SnapEntries(r))[hist[r].by]
                      = NonEmpty(handed)[hist[r].by]

C27_Witness ==
    \E r \in Readers :
        /\ WokenWithSnapshot(r)
        /\ rd[r].pc = "end"
        /\ hist[r].by = 2
        /\ Len(SnapEntries(r)) = 2
        /\ hist[r].start = 1

\* C28: the write lock is held only while add updates the count and the
\* head, not while it notifies or prunes; a reader holds the read lock only
\* between the copy of the header fields and the return of snapshot, never
\* while it steps its iterator, so that the writer is not kept from the lock
\* by the readers that iterate.
C28_LockDiscipline ==
    /\ wlock => wpc \in {"count", "head", "unlock"}
    /\ wpc \in {"notify", "prune"} => ~wlock
    /\ \A r \in Readers : r \in rlock <=> rd[r].pc = "unlock"
    /\ \A r \in Readers : rd[r].pc \in {"iter", "end"} => r \notin rlock
    /\ (wpc = "lock" /\ \A r \in Readers : rd[r].pc # "unlock")
          => ENABLED AddLock

C28_Witness ==
    \E r \in Readers :
        /\ wlock
        /\ wpc = "head"
        /\ rd[r].pc = "iter"
        /\ rd[r].yielded # <<>>
        /\ rlock = {}

\* The log held entries and the writer was idle when wait_iter was called,
\* and add has not been handed a non-empty entry since.
QuietNonEmptyLog(r) ==
    /\ rd[r].op = "wait_iter"
    /\ rd[r].matcher # "none"
    /\ hist[r].idle
    /\ hist[r].start >= 1
    /\ Len(NonEmpty(handed)) = hist[r].start

\* C29: wait_iter waits even when the log holds entries: called with a valid
\* query on a non-empty log that gets no add during the call, it leaves its
\* wait only through the deadline and then returns an iterator over the
\* entries that were there.
C29_WaitsOnNonEmptyLog ==
    \A r \in Readers :
        (QuietNonEmptyLog(r)
           /\ rd[r].pc \in {"snapshot", "unlock", "iter", "end", "done"})
            => /\ rd[r].via = "timeout"
               /\ rd[r].result # "none"
                    => /\ rd[r].result = "Ok"
                       /\ rd[r].snap.head = head
                       /\ Len(SnapEntries(r)) = hist[r].start

C29_Witness ==
    \E r \in Readers :
        /\ QuietNonEmptyLog(r)
        /\ rd[r].pc = "end"
        /\ rd[r].via = "timeout"
        /\ hist[r].start = 2
        /\ Len(rd[r].yielded) = 2

\* What is left for the iterator of r to visit: the events from its index on
\* and the nodes from its node on.
Remaining(ns, it) ==
    SumLens(ns, it.node) - it.index + Len(Chain(ns, it.node))

\* C30: iteration is finite: every call of next on an iterator that has not
\* ended advances it (over events of the batch or to an older node), so what
\* is left to visit shrinks at each call, down to the end; a call made after
\* the end returns None again and yields nothing.
C30_IterationEnds ==
    [][\A r \in Readers :
          /\ (rd[r].pc = "iter" /\ rd'[r] # rd[r])
                => /\ Remaining(nodes', rd'[r]) < Remaining(nodes, rd[r])
                   /\ Remaining(nodes', rd'[r]) >= 0
                   /\ rd'[r].pc = "end" => rd'[r].node = None
          /\ (rd[r].pc = "end" /\ rd'[r] # rd[r])
                => /\ rd'[r].pc = "end"
                   /\ rd'[r].node = None
                   /\ rd'[r].yielded = rd[r].yielded]_vars

C30_Witness ==
    \E r \in Readers :
        /\ rd[r].pc = "end"
        /\ rd[r].after = MaxAfterEnd
        /\ Len(rd[r].yielded) = 2
        /\ Len(Chain(nodes, head)) = 2

\* The live log as the record prune works on.
LiveLog ==
    [nodes |-> nodes, num_events |-> num_events,
     oldest_height |-> oldest_height, head |-> head]

\* C31: prune is a stub: called with any head and any event count it gives
\* the log back as it is; the prune step of add leaves num_events,
\* oldest_height, head and every node unchanged, and no step ever decreases
\* num_events.
C31_PruneIsStub ==
    /\ [](\A h \in 0..Len(nodes), n \in 0..num_events :
              Prune(LiveLog, h, n) = LiveLog)
    /\ [][/\ (wpc = "prune" /\ wpc' # wpc) => UNCHANGED logVars
          /\ num_events' >= num_events]_vars

C31_Witness ==
    /\ wpc = "recv"
    /\ Len(NonEmpty(handed)) = 2
    /\ num_events = 3
    /\ Len(Chain(nodes, head)) = 2
    /\ HeightSpan(nodes, head) > LOG_BLOCK_HEIGHT_DIFF

\* C33: once an add with a non-empty batch has completed, the live log is
\* never empty again: head stays set, every snapshot taken from then on is a
\* snapshot (not None), and try_iter with a valid query does not fail with
\* EmptyLog.
C33_NeverEmptyAgain ==
    /\ AddsReturned >= 1 => head # None
    /\ \A r \in Readers :
          (HoldsSnapshot(r) /\ hist[r].returned >= 1)
              => rd[r].snap.head # None
    /\ \A r \in Readers :
          (rd[r].op = "try_iter" /\ rd[r].matcher # "none"
             /\ rd[r].result # "none" /\ hist[r].returned >= 1)
              => rd[r].result = "Ok"

C33_Witness ==
    \E r \in Readers :
        /\ rd[r].op = "try_iter"
        /\ rd[r].result = "Ok"
        /\ hist[r].returned = 2
        /\ rd[r].pc = "iter"
        /\ Len(SnapEntries(r)) = 2

\* C34: the operations of a reader (the parse, the wait, snapshot, the
\* return of try_iter / wait_iter with an iterator, InvalidQuery or
\* EmptyLog, a call of next) leave nodes, num_events, oldest_height and head
\* of the live log unchanged.
C34_ReadersLeaveLog ==
    [][(\E r \in Readers : rd'[r] # rd[r]) => UNCHANGED logVars]_vars

C34_Witness ==
    \E r \in Readers :
        /\ rd[r].op = "wait_iter"
        /\ rd[r].pc = "end"
        /\ rd[r].yielded # <<>>
        /\ head = rd[r].snap.head
        /\ num_events = rd[r].snap.num_events
        /\ wpc = "recv"

\* The minted-balance key of token t is changed, none of its balance keys
\* is, and the minter of every token with a changed minted-balance key is
\* set and among the verifiers.
MintWithoutBalances(t) ==
    /\ vp.pc = "done"
    /\ MintedBalanceKey(t) \in vp.keys_changed
    /\ ChangedBalanceKeys(t) = {}
    /\ \A u \in MintedTokens : MinterVerifies(u)

PostEntry == env.state.post_log[env.res["read_post"].key]

\* C32: read_post resolves the key against the write log before storage: a
\* persistent Write yields the written value, a Delete yields None whatever
\* storage holds, an InitAccount yields the VP code hash, none of the three
\* accesses storage, and without a persistent entry the answer is what
\* storage holds.
C32_ReadPostLayering ==
    LET r == env.res["read_post"]
    IN  /\ (r.status # "none" /\ r.db) => PostEntry.kind = "None"
        /\ r.status = "Ok" =>
              /\ PostEntry.kind = "Write" =>
                    r.value = Some(PostEntry.value) /\ ~r.db
              /\ PostEntry.kind = "Delete" => r.value = NoValue /\ ~r.db
              /\ PostEntry.kind = "InitAccount" =>
                    r.value = Some(PostEntry.vp_code_hash) /\ ~r.db
              /\ PostEntry.kind = "None" =>
                    r.value = env.state.db[r.key] /\ r.db

C32_Witness ==
    /\ env.res["read_post"].status = "Ok"
    /\ PostEntry.kind = "Delete"
    /\ env.state.db[env.res["read_post"].key] = Some("x")
    /\ env.res["read_post"].value = NoValue

\* Both host functions have returned Ok for the same key.
BothOk(has_key, read) ==
    /\ env.res[has_key].status = "Ok"
    /\ env.res[read].status = "Ok"
    /\ env.res[has_key].key = env.res[read].key

\* C35: when both calls succeed on a key, has_key_pre returns true exactly
\* when read_pre returns a value, and has_key_post returns true exactly when
\* read_post returns a value.
C35_HasKeyIffRead ==
    /\ BothOk("has_key_pre", "read_pre")
          => (env.res["has_key_pre"].value
                <=> env.res["read_pre"].value # NoValue)
    /\ BothOk("has_key_post", "read_post")
          => (env.res["has_key_post"].value
                <=> env.res["read_post"].value # NoValue)

C35_Witness ==
    /\ BothOk("has_key_pre", "read_pre")
    /\ BothOk("has_key_post", "read_post")
    /\ env.res["read_pre"].key = env.res["read_post"].key
    /\ env.state.pre_log[env.res["read_pre"].key].kind = "Temp"
    /\ env.res["has_key_pre"].db
    /\ ~env.res["has_key_pre"].value
    /\ PostEntry.kind = "InitAccount"
    /\ env.res["has_key_post"].value

====
